---- MODULE Spec2Model ----
(***************************************************************************)
(* Village Connect backend: the Express route handlers over the Mongoose   *)
(* collections User, Problem, Solution and ForumPost, as a state machine.  *)
(*                                                                         *)
(* State: the persisted collections.  One action per route handler; a      *)
(* handler whose awaits other requests can interleave with (solution       *)
(* create / delete, problem delete) is split at its awaits into steps      *)
(* driven by a request slot in `inflight`.  `resp` is the response of the  *)
(* request that completed last; `hist` records, per problem, who created   *)
(* it and which workflow requests have succeeded on it; `solHist`, per      *)
(* solution, the problem it was created for and whether its create has     *)
(* been answered 201.                                                      *)
(*                                                                         *)
(* Mongoose semantics used: save() of a loaded document writes only the    *)
(* modified paths; an array push is sent as $push; save() runs the enum    *)
(* validators and rejects the write on failure; save() of a document       *)
(* whose row is gone fails (DocumentNotFoundError).                        *)
(***************************************************************************)
EXTENDS Integers, Sequences, FiniteSets, TLC

VARIABLES users, problems, nextProblem, solutions, nextSolution,
          posts, nextPost, inflight, resp, hist, solHist

vars == <<users, problems, nextProblem, solutions, nextSolution,
          posts, nextPost, inflight, resp, hist, solHist>>

----------------------------------------------------------------------------
(* Bounds of the model *)

MaxProblems == 2
MaxSolutions == 2
MaxInflight == 2
MaxPosts == 1
MaxComments == 1
\* Problems and solutions created when only the votes are of interest.
MaxVoteDocs == 1
\* Longest upvotes array a toggle request is sent to.
MaxUpvotes == 2
\* Problems created while users are administered.
MaxAdminDocs == 1

----------------------------------------------------------------------------
(* Identities *)

Roles == {"villager", "volunteer", "admin"}

UserIds == {"adm", "vilA", "vilB", "vol"}

\* A bearer token: the user id it encodes, or no token at all.
NoToken == "anon"
Tokens == UserIds \cup {NoToken}

\* A bearer token that is not a JWT, and the token of user vol past its
\* expiry.
MalformedToken == "garbage"
ExpiredToken == "vol-expired"

\* An ObjectId that names no user document.
GhostUser == "ghost"

\* A string that is not an ObjectId: Model.findById(it) rejects with a
\* CastError.
MalformedId == "not-an-id"
CastsToObjectId(id) == id # MalformedId

None == "none"
Unset == "unset"
Stamped == "date"

ProblemIds == 1..MaxProblems
SolutionIds == 1..MaxSolutions

ProblemStatuses == {"open", "in-progress", "resolved", "closed"}
SolutionStatuses == {"pending", "approved", "rejected", "implemented"}
Categories == {"water"}

----------------------------------------------------------------------------
(* Sequence helpers: Array.prototype.indexOf / splice / filter *)

RECURSIVE IndexFrom(_, _, _)
IndexFrom(s, x, i) ==
    IF i > Len(s) THEN 0
    ELSE IF s[i] = x THEN i
    ELSE IndexFrom(s, x, i + 1)

\* indexOf: position of the first occurrence, 0 when absent (JS: -1).
IndexOf(s, x) == IndexFrom(s, x, 1)

\* splice(i, 1): the sequence without its i-th element.
SpliceOne(s, i) == SubSeq(s, 1, i - 1) \o SubSeq(s, i + 1, Len(s))

\* $pull: every occurrence of x removed.
RECURSIVE Pull(_, _)
Pull(s, x) ==
    IF s = <<>> THEN <<>>
    ELSE IF Head(s) = x THEN Pull(Tail(s), x)
    ELSE <<Head(s)>> \o Pull(Tail(s), x)

Range(s) == {s[i] : i \in 1..Len(s)}

Count(s, x) == Cardinality({i \in 1..Len(s) : s[i] = x})

\* The upvote toggle every upvote handler runs on the loaded array:
\*   const upvoteIndex = upvotes.indexOf(req.user._id);
\*   if (upvoteIndex > -1) upvotes.splice(upvoteIndex, 1); else upvotes.push(...)
Toggle(upvotes, u) ==
    LET upvoteIndex == IndexOf(upvotes, u) IN
    IF upvoteIndex > 0 THEN SpliceOne(upvotes, upvoteIndex) ELSE Append(upvotes, u)

----------------------------------------------------------------------------
(* Schemas *)

\* problemSchema defaults, with reportedBy set by the handler.
NewProblem(reporter) ==
    [isVerified |-> FALSE,
     status |-> "open",
     reportedBy |-> reporter,
     upvotes |-> <<>>,
     solutions |-> <<>>,
     assignedTo |-> None,
     resolvedAt |-> Unset,
     isCompletedByVillager |-> FALSE]

\* The enum validator problem.save() runs on status.  Validators other
\* than required are not run on an undefined value, and status is not
\* required.
ValidProblem(doc) == doc.status = Unset \/ doc.status \in ProblemStatuses

\* Object.assign(doc, body) / new Model({...body}): the body's fields that
\* are paths of the schema overwrite the document's.
Assign(doc, body) ==
    [f \in DOMAIN doc |-> IF f \in DOMAIN body THEN body[f] ELSE doc[f]]

----------------------------------------------------------------------------
(* Middleware *)

\* auth: the token must resolve to an existing user.
auth(tok) == tok \in DOMAIN users

\* adminAuth: the resolved user's role must be admin.
adminAuth(tok) == users[tok].role = "admin"

\* jwt.verify(token, secret): throws on a token that is malformed or
\* expired, otherwise yields the payload, whose userId is Decoded(token).
JwtVerifies(tok) == tok \notin {MalformedToken, ExpiredToken}
Decoded(tok) == IF tok = ExpiredToken THEN "vol" ELSE tok

\* optionalAuth that reads the payload without verifying the token.
optionalAuthUnverified(tok) ==
    IF tok # NoToken /\ tok # MalformedToken /\ Decoded(tok) \in DOMAIN users
    THEN Decoded(tok)
    ELSE NoToken

\* optionalAuth: req.user is set only when a token is sent, verifies and
\* its userId is a stored user; any failure continues without a user.
optionalAuth(tok) ==
    IF tok # NoToken /\ JwtVerifies(tok) /\ Decoded(tok) \in DOMAIN users
    THEN Decoded(tok)
    ELSE NoToken

RoleOf(identity) == IF identity \in DOMAIN users THEN users[identity].role ELSE None

----------------------------------------------------------------------------
(* Responses *)

View(p) == [id |-> p, isVerified |-> problems[p].isVerified]

\* res.status(status).json(body), with the request it answers: the route,
\* the token, the :id parameter and one more parameter of the request.
\* `found` is, for an upvote request, the set of voters it read.
ReplyFound(op, tok, target, arg, status, body, found) ==
    resp' = [op |-> op, caller |-> tok, target |-> target, arg |-> arg,
             status |-> status, body |-> body, found |-> found]

ReplyArg(op, tok, target, arg, status, body) ==
    ReplyFound(op, tok, target, arg, status, body, {})

Reply(op, tok, target, status, body) == ReplyArg(op, tok, target, None, status, body)

\* What has happened to a problem: the role its creator had, whether an
\* admin's verify or verify-completion has succeeded on it, and whether a
\* mark-complete by its assignedTo has.
NewHist(creator) ==
    [creatorRole |-> users[creator].role,
     adminVerified |-> FALSE,
     completedByAssignee |-> FALSE]

----------------------------------------------------------------------------
Init ==
    /\ users = [u \in UserIds |->
                  [role |-> CASE u = "adm" -> "admin"
                              [] u = "vol" -> "volunteer"
                              [] OTHER -> "villager"]]
    /\ problems = << >>
    /\ nextProblem = 1
    /\ solutions = << >>
    /\ nextSolution = 1
    /\ posts = << >>
    /\ nextPost = 1
    /\ inflight = [r \in 1..MaxInflight |-> [op |-> "idle"]]
    /\ resp = [op |-> "none", caller |-> NoToken, target |-> 0, arg |-> None,
               status |-> 0, body |-> {}, found |-> {}]
    /\ hist = << >>
    /\ solHist = << >>

----------------------------------------------------------------------------
(* Collection helpers *)

\* Model.findById(id): whether a document with that id is stored.
FindProblem(p) == p \in DOMAIN problems

\* Problem.findById(id) on a stored problem: the hydrated document, in
\* which a path the stored document lacks takes its schema default; the
\* next save() of the document writes the default.
LoadProblem(p) ==
    IF problems[p].status = Unset
    THEN [problems[p] EXCEPT !.status = "open"]
    ELSE problems[p]

\* insert / replace one document of a collection.
Put(coll, id, doc) ==
    [k \in DOMAIN coll \cup {id} |-> IF k = id THEN doc ELSE coll[k]]

\* findByIdAndDelete / deleteMany: the collection without the given ids.
Remove(coll, ids) == [k \in DOMAIN coll \ ids |-> coll[k]]

SaveProblem(p, doc) == problems' = Put(problems, p, doc)

NoDbChange ==
    UNCHANGED <<users, problems, nextProblem, solutions, nextSolution, posts, nextPost>>

----------------------------------------------------------------------------
(* Request bodies *)

\* POST /api/problems: the express-validator chain on the body.
ValidPostProblem(b) == "category" \in DOMAIN b /\ b.category \in Categories

----------------------------------------------------------------------------
(* routes/problems.js *)

\* ListFilter without the volunteer restriction.
ListFilterNoVisibility(identity, status, p) ==
    status # None => problems[p].status = status

\* The filter GET /api/problems builds: the optional status filter, and
\* isVerified = true when the resolved user is a volunteer.
ListFilter(identity, status, p) ==
    /\ (status # None => problems[p].status = status)
    /\ (RoleOf(identity) = "volunteer" => problems[p].isVerified = TRUE)

\* GET /api/problems
GetProblems(tok, status) ==
    /\ LET identity == optionalAuth(tok) IN
         ReplyArg("list", tok, 0, status, 200,
               {View(p) : p \in {q \in DOMAIN problems : ListFilter(identity, status, q)}})
    /\ NoDbChange
    /\ UNCHANGED <<inflight, hist, solHist>>

\* GET /api/problems/:id
GetProblemById(tok, p) ==
    /\ LET identity == optionalAuth(tok) IN
         IF ~FindProblem(p) THEN Reply("get", tok, p, 404, {})
         ELSE IF RoleOf(identity) = "volunteer" /\ ~problems[p].isVerified
              THEN Reply("get", tok, p, 403, {})
         ELSE Reply("get", tok, p, 200, {View(p)})
    /\ NoDbChange
    /\ UNCHANGED <<inflight, hist, solHist>>

\* POST /api/problems
PostProblem(tok, b) ==
    /\ nextProblem <= MaxProblems
    /\ UNCHANGED <<users, solutions, nextSolution, posts, nextPost, inflight, solHist>>
    /\ IF ~auth(tok)
       THEN Reply("create", tok, 0, 401, {}) /\ UNCHANGED <<problems, nextProblem, hist>>
       ELSE IF ~ValidPostProblem(b)
       THEN Reply("create", tok, 0, 400, {}) /\ UNCHANGED <<problems, nextProblem, hist>>
       ELSE LET doc == [Assign(NewProblem(tok), b) EXCEPT !.reportedBy = tok]
                p == nextProblem
            IN IF ~ValidProblem(doc)
               THEN Reply("create", tok, 0, 500, {})
                    /\ UNCHANGED <<problems, nextProblem, hist>>
               ELSE /\ SaveProblem(p, doc)
                    /\ nextProblem' = nextProblem + 1
                    /\ hist' = Put(hist, p, NewHist(tok))
                    /\ Reply("create", tok, p, 201, {})

\* PUT /api/problems/:id
PutProblem(tok, p, b) ==
    /\ UNCHANGED <<users, nextProblem, solutions, nextSolution, posts, nextPost, inflight, hist, solHist>>
    /\ IF ~auth(tok)
       THEN Reply("update", tok, p, 401, {}) /\ UNCHANGED problems
       ELSE IF ~FindProblem(p)
       THEN Reply("update", tok, p, 404, {}) /\ UNCHANGED problems
       ELSE IF problems[p].reportedBy # tok /\ users[tok].role # "admin"
       THEN Reply("update", tok, p, 403, {}) /\ UNCHANGED problems
       ELSE LET doc == Assign(LoadProblem(p), b) IN
            IF ~ValidProblem(doc)
            THEN Reply("update", tok, p, 500, {}) /\ UNCHANGED problems
            ELSE SaveProblem(p, doc) /\ Reply("update", tok, p, 200, {})

\* POST /api/problems/:id/upvote
UpvoteProblem(tok, p) ==
    /\ UNCHANGED <<users, nextProblem, solutions, nextSolution, posts, nextPost, inflight, hist, solHist>>
    /\ IF ~auth(tok)
       THEN Reply("upvoteProblem", tok, p, 401, {}) /\ UNCHANGED problems
       ELSE IF ~FindProblem(p)
       THEN Reply("upvoteProblem", tok, p, 404, {}) /\ UNCHANGED problems
       ELSE /\ SaveProblem(p, [LoadProblem(p) EXCEPT !.upvotes = Toggle(@, tok)])
            /\ ReplyFound("upvoteProblem", tok, p, None, 200, {},
                          Range(problems[p].upvotes))

\* PUT /api/problems/:id/status
PutProblemStatus(tok, p, status, assignedTo) ==
    /\ UNCHANGED <<users, nextProblem, solutions, nextSolution, posts, nextPost, inflight, hist, solHist>>
    /\ IF ~auth(tok)
       THEN Reply("status", tok, p, 401, {}) /\ UNCHANGED problems
       ELSE IF ~adminAuth(tok)
       THEN Reply("status", tok, p, 403, {}) /\ UNCHANGED problems
       ELSE IF ~FindProblem(p)
       THEN Reply("status", tok, p, 404, {}) /\ UNCHANGED problems
       ELSE LET doc == [LoadProblem(p) EXCEPT
                          !.status = status,
                          !.assignedTo = IF assignedTo # None THEN assignedTo ELSE @,
                          !.resolvedAt = IF status = "resolved" THEN Stamped ELSE @]
            IN IF ~ValidProblem(doc)
               THEN Reply("status", tok, p, 500, {}) /\ UNCHANGED problems
               ELSE SaveProblem(p, doc) /\ Reply("status", tok, p, 200, {})

\* PUT /api/problems/:id/verify
PutProblemVerify(tok, p) ==
    /\ UNCHANGED <<users, nextProblem, solutions, nextSolution, posts, nextPost, inflight, solHist>>
    /\ IF ~auth(tok)
       THEN Reply("verify", tok, p, 401, {}) /\ UNCHANGED <<problems, hist>>
       ELSE IF ~adminAuth(tok)
       THEN Reply("verify", tok, p, 403, {}) /\ UNCHANGED <<problems, hist>>
       ELSE IF ~FindProblem(p)
       THEN Reply("verify", tok, p, 404, {}) /\ UNCHANGED <<problems, hist>>
       ELSE /\ SaveProblem(p, [LoadProblem(p) EXCEPT !.isVerified = TRUE])
            /\ hist' = [hist EXCEPT ![p].adminVerified = TRUE]
            /\ Reply("verify", tok, p, 200, {})

\* PUT /api/problems/:id/complete
PutProblemComplete(tok, p) ==
    /\ UNCHANGED <<users, nextProblem, solutions, nextSolution, posts, nextPost, inflight, solHist>>
    /\ IF ~auth(tok)
       THEN Reply("complete", tok, p, 401, {}) /\ UNCHANGED <<problems, hist>>
       ELSE IF users[tok].role # "villager"
       THEN Reply("complete", tok, p, 403, {}) /\ UNCHANGED <<problems, hist>>
       ELSE IF ~FindProblem(p)
       THEN Reply("complete", tok, p, 404, {}) /\ UNCHANGED <<problems, hist>>
       \* problem.assignedTo.toString() on an unset assignedTo throws a
       \* TypeError, which the handler's catch turns into a 500.
       ELSE IF problems[p].assignedTo = None
       THEN Reply("complete", tok, p, 500, {}) /\ UNCHANGED <<problems, hist>>
       ELSE IF problems[p].assignedTo # tok
       THEN Reply("complete", tok, p, 403, {}) /\ UNCHANGED <<problems, hist>>
       ELSE /\ SaveProblem(p, [LoadProblem(p) EXCEPT
                                 !.isCompletedByVillager = TRUE,
                                 !.status = "resolved",
                                 !.resolvedAt = Stamped])
            /\ hist' = [hist EXCEPT ![p].completedByAssignee = TRUE]
            /\ Reply("complete", tok, p, 200, {})

\* verify-completion without the isCompletedByVillager check.
PutProblemVerifyCompletionUnchecked(tok, p) ==
    /\ UNCHANGED <<users, nextProblem, solutions, nextSolution, posts, nextPost, inflight, solHist>>
    /\ IF ~auth(tok)
       THEN Reply("verifyCompletion", tok, p, 401, {}) /\ UNCHANGED <<problems, hist>>
       ELSE IF ~adminAuth(tok)
       THEN Reply("verifyCompletion", tok, p, 403, {}) /\ UNCHANGED <<problems, hist>>
       ELSE IF ~FindProblem(p)
       THEN Reply("verifyCompletion", tok, p, 404, {}) /\ UNCHANGED <<problems, hist>>
       ELSE /\ SaveProblem(p, [LoadProblem(p) EXCEPT
                                 !.isVerified = TRUE,
                                 !.status = "resolved"])
            /\ hist' = [hist EXCEPT ![p].adminVerified = TRUE]
            /\ Reply("verifyCompletion", tok, p, 200, {})

\* PUT /api/problems/:id/verify-completion
PutProblemVerifyCompletion(tok, p) ==
    /\ UNCHANGED <<users, nextProblem, solutions, nextSolution, posts, nextPost, inflight, solHist>>
    /\ IF ~auth(tok)
       THEN Reply("verifyCompletion", tok, p, 401, {}) /\ UNCHANGED <<problems, hist>>
       ELSE IF ~adminAuth(tok)
       THEN Reply("verifyCompletion", tok, p, 403, {}) /\ UNCHANGED <<problems, hist>>
       ELSE IF ~FindProblem(p)
       THEN Reply("verifyCompletion", tok, p, 404, {}) /\ UNCHANGED <<problems, hist>>
       ELSE IF ~problems[p].isCompletedByVillager
       THEN Reply("verifyCompletion", tok, p, 400, {}) /\ UNCHANGED <<problems, hist>>
       ELSE /\ SaveProblem(p, [LoadProblem(p) EXCEPT
                                 !.isVerified = TRUE,
                                 !.status = "resolved"])
            /\ hist' = [hist EXCEPT ![p].adminVerified = TRUE]
            /\ Reply("verifyCompletion", tok, p, 200, {})

----------------------------------------------------------------------------
(* routes/admin.js *)

\* assign that sets assignedTo and leaves the status as it was.
AdminAssignProblemKeepStatus(tok, p, assignedTo) ==
    /\ UNCHANGED <<users, nextProblem, solutions, nextSolution, posts, nextPost, inflight, hist, solHist>>
    /\ IF ~auth(tok)
       THEN ReplyArg("assign", tok, p, assignedTo, 401, {}) /\ UNCHANGED problems
       ELSE IF ~adminAuth(tok)
       THEN ReplyArg("assign", tok, p, assignedTo, 403, {}) /\ UNCHANGED problems
       ELSE IF ~FindProblem(p)
       THEN ReplyArg("assign", tok, p, assignedTo, 404, {}) /\ UNCHANGED problems
       ELSE IF ~CastsToObjectId(assignedTo)
       THEN ReplyArg("assign", tok, p, assignedTo, 500, {}) /\ UNCHANGED problems
       ELSE IF assignedTo \notin DOMAIN users \/ users[assignedTo].role # "villager"
       THEN ReplyArg("assign", tok, p, assignedTo, 400, {}) /\ UNCHANGED problems
       ELSE /\ SaveProblem(p, [LoadProblem(p) EXCEPT !.assignedTo = assignedTo])
            /\ ReplyArg("assign", tok, p, assignedTo, 200, {})

\* PUT /api/admin/problems/:id/assign
AdminAssignProblem(tok, p, assignedTo) ==
    /\ UNCHANGED <<users, nextProblem, solutions, nextSolution, posts, nextPost, inflight, hist, solHist>>
    /\ IF ~auth(tok)
       THEN ReplyArg("assign", tok, p, assignedTo, 401, {}) /\ UNCHANGED problems
       ELSE IF ~adminAuth(tok)
       THEN ReplyArg("assign", tok, p, assignedTo, 403, {}) /\ UNCHANGED problems
       ELSE IF ~FindProblem(p)
       THEN ReplyArg("assign", tok, p, assignedTo, 404, {}) /\ UNCHANGED problems
       ELSE IF ~CastsToObjectId(assignedTo)
       THEN ReplyArg("assign", tok, p, assignedTo, 500, {}) /\ UNCHANGED problems
       ELSE IF assignedTo \notin DOMAIN users \/ users[assignedTo].role # "villager"
       THEN ReplyArg("assign", tok, p, assignedTo, 400, {}) /\ UNCHANGED problems
       ELSE /\ SaveProblem(p, [LoadProblem(p) EXCEPT
                                 !.assignedTo = assignedTo,
                                 !.status = "in-progress"])
            /\ ReplyArg("assign", tok, p, assignedTo, 200, {})

\* PUT /api/admin/users/:id/role.  findByIdAndUpdate runs no validators,
\* so the role of the body is stored as it is.  A body with no role sends
\* { role: undefined }, which the update either drops or stores as null.
PutUserRole(tok, u, b) ==
    /\ UNCHANGED <<problems, nextProblem, solutions, nextSolution, posts, nextPost, inflight, hist, solHist>>
    /\ IF ~auth(tok)
       THEN ReplyArg("role", tok, u, None, 401, {}) /\ UNCHANGED users
       ELSE IF ~adminAuth(tok)
       THEN ReplyArg("role", tok, u, None, 403, {}) /\ UNCHANGED users
       ELSE IF u \notin DOMAIN users
       THEN ReplyArg("role", tok, u, None, 404, {}) /\ UNCHANGED users
       ELSE /\ \/ /\ "role" \in DOMAIN b
                  /\ users' = [users EXCEPT ![u].role = b.role]
               \/ /\ "role" \notin DOMAIN b
                  /\ \/ UNCHANGED users
                     \/ users' = [users EXCEPT ![u].role = None]
            /\ ReplyArg("role", tok, u, None, 200, {})

\* DELETE /api/admin/users/:id without the check that the target is not
\* the caller.
DeleteUserAnyTarget(tok, u) ==
    /\ UNCHANGED <<problems, nextProblem, solutions, nextSolution, posts, nextPost, inflight, hist, solHist>>
    /\ IF ~auth(tok)
       THEN ReplyArg("deleteUser", tok, u, None, 401, {}) /\ UNCHANGED users
       ELSE IF ~adminAuth(tok)
       THEN ReplyArg("deleteUser", tok, u, None, 403, {}) /\ UNCHANGED users
       ELSE IF u \notin DOMAIN users
       THEN ReplyArg("deleteUser", tok, u, None, 404, {}) /\ UNCHANGED users
       ELSE /\ users' = Remove(users, {u})
            /\ ReplyArg("deleteUser", tok, u, None, 200, {})

\* DELETE /api/admin/users/:id
DeleteUser(tok, u) ==
    /\ UNCHANGED <<problems, nextProblem, solutions, nextSolution, posts, nextPost, inflight, hist, solHist>>
    /\ IF ~auth(tok)
       THEN ReplyArg("deleteUser", tok, u, None, 401, {}) /\ UNCHANGED users
       ELSE IF ~adminAuth(tok)
       THEN ReplyArg("deleteUser", tok, u, None, 403, {}) /\ UNCHANGED users
       ELSE IF u \notin DOMAIN users
       THEN ReplyArg("deleteUser", tok, u, None, 404, {}) /\ UNCHANGED users
       ELSE IF u = tok
       THEN ReplyArg("deleteUser", tok, u, None, 400, {}) /\ UNCHANGED users
       ELSE /\ users' = Remove(users, {u})
            /\ ReplyArg("deleteUser", tok, u, None, 200, {})

----------------------------------------------------------------------------
(* Requests in flight.  A handler that awaits more than one write is one  *)
(* step per await; between two steps any other request may run.          *)

\* A request between two awaits is a record of its route (op), the await
\* it is suspended at (pc) and the locals of its handler; `wrote' records
\* whether a step of it has changed what is stored.
Idle == [op |-> "idle"]

Slots == 1..MaxInflight

Quiescent == \A r \in Slots : inflight[r] = Idle

\* A new request takes the first idle slot (which slot is immaterial).
Free(r) == inflight[r] = Idle /\ \A q \in Slots : q < r => inflight[q] # Idle

Begin(r, req) == inflight' = [inflight EXCEPT ![r] = req]

Finish(r) == inflight' = [inflight EXCEPT ![r] = Idle]

At(r, op, pc) == inflight[r].op = op /\ inflight[r].pc = pc

\* DELETE /api/problems/:id, up to the first await's result: auth,
\* adminAuth and Problem.findById.
DeleteProblemFind(r, tok, p) ==
    /\ Free(r)
    /\ UNCHANGED <<hist, solHist>>
    /\ NoDbChange
    /\ IF ~auth(tok)
       THEN Reply("deleteProblem", tok, p, 401, {}) /\ UNCHANGED inflight
       ELSE IF ~adminAuth(tok)
       THEN Reply("deleteProblem", tok, p, 403, {}) /\ UNCHANGED inflight
       ELSE IF ~FindProblem(p)
       THEN Reply("deleteProblem", tok, p, 404, {}) /\ UNCHANGED inflight
       ELSE /\ Begin(r, [op |-> "deleteProblem", pc |-> "deleteMany",
                         tok |-> tok, problem |-> p, wrote |-> FALSE])
            /\ UNCHANGED resp

\* Solution.deleteMany({ problem: problem._id })
DeleteProblemSolutions(r) ==
    /\ At(r, "deleteProblem", "deleteMany")
    /\ solutions' = Remove(solutions,
                           {s \in DOMAIN solutions :
                              solutions[s].problem = inflight[r].problem})
    /\ inflight' = [inflight EXCEPT ![r].pc = "delete",
                                    ![r].wrote = (solutions' # solutions)]
    /\ UNCHANGED <<users, problems, nextProblem, nextSolution, posts, nextPost, resp, hist, solHist>>

\* Problem.findByIdAndDelete(req.params.id), then the 200.
DeleteProblemRemove(r) ==
    /\ At(r, "deleteProblem", "delete")
    /\ problems' = Remove(problems, {inflight[r].problem})
    /\ Reply("deleteProblem", inflight[r].tok, inflight[r].problem, 200, {})
    /\ Finish(r)
    /\ UNCHANGED <<users, nextProblem, solutions, nextSolution, posts, nextPost, hist, solHist>>

----------------------------------------------------------------------------
(* routes/solutions.js *)

\* solutionSchema defaults, with problem from the body and proposedBy set
\* by the handler.
NewSolution(proposer, p) ==
    [problem |-> p,
     proposedBy |-> proposer,
     status |-> "pending",
     upvotes |-> <<>>,
     implementedAt |-> Unset]

\* The enum validator solution.save() runs on status; it is not run on an
\* undefined value.
ValidSolution(doc) == doc.status = Unset \/ doc.status \in SolutionStatuses

\* POST /api/solutions: the express-validator chain on the body.
ValidPostSolution(b) == "problem" \in DOMAIN b

FindSolution(s) == s \in DOMAIN solutions

\* Solution.findById(id) on a stored solution, hydrated likewise.
LoadSolution(s) ==
    IF solutions[s].status = Unset
    THEN [solutions[s] EXCEPT !.status = "pending"]
    ELSE solutions[s]

\* POST /api/solutions, up to solution.save() being issued: auth, the
\* validators, Problem.findById(req.body.problem) and new Solution(...).
PostSolutionFind(r, tok, b) ==
    /\ Free(r)
    /\ nextSolution <= MaxSolutions
    /\ UNCHANGED <<users, problems, nextProblem, solutions, posts, nextPost, hist, solHist>>
    /\ IF ~auth(tok)
       THEN Reply("postSolution", tok, 0, 401, {}) /\ UNCHANGED <<inflight, nextSolution>>
       ELSE IF ~ValidPostSolution(b)
       THEN Reply("postSolution", tok, 0, 400, {}) /\ UNCHANGED <<inflight, nextSolution>>
       ELSE IF ~FindProblem(b.problem)
       THEN Reply("postSolution", tok, 0, 404, {}) /\ UNCHANGED <<inflight, nextSolution>>
       ELSE /\ Begin(r, [op |-> "postSolution", pc |-> "saveSolution",
                         tok |-> tok, problem |-> b.problem, id |-> nextSolution,
                         wrote |-> FALSE,
                         doc |-> [Assign(NewSolution(tok, b.problem), b)
                                    EXCEPT !.proposedBy = tok]])
            /\ nextSolution' = nextSolution + 1
            /\ UNCHANGED resp

\* await solution.save()
PostSolutionSave(r) ==
    /\ At(r, "postSolution", "saveSolution")
    /\ UNCHANGED <<users, problems, nextProblem, nextSolution, posts, nextPost, hist>>
    /\ IF ~ValidSolution(inflight[r].doc)
       THEN /\ Reply("postSolution", inflight[r].tok, 0, 500, {})
            /\ Finish(r)
            /\ UNCHANGED <<solutions, solHist>>
       ELSE /\ solutions' = Put(solutions, inflight[r].id, inflight[r].doc)
            /\ solHist' = Put(solHist, inflight[r].id,
                              [createdFor |-> inflight[r].problem, created |-> FALSE])
            /\ inflight' = [inflight EXCEPT ![r].pc = "saveProblem",
                                            ![r].wrote = TRUE]
            /\ UNCHANGED resp

\* problem.solutions.push(solution._id); await problem.save(): a $push on
\* the stored problem, which fails when the problem has been deleted since
\* it was loaded.  Then the 201.
PostSolutionPush(r) ==
    /\ At(r, "postSolution", "saveProblem")
    /\ UNCHANGED <<users, nextProblem, solutions, nextSolution, posts, nextPost, hist>>
    /\ Finish(r)
    /\ LET p == inflight[r].problem IN
       IF ~FindProblem(p)
       THEN /\ ReplyArg("postSolution", inflight[r].tok, inflight[r].id, p, 500, {})
            /\ UNCHANGED <<problems, solHist>>
       ELSE /\ SaveProblem(p, [LoadProblem(p) EXCEPT
                                 !.solutions = Append(@, inflight[r].id)])
            /\ solHist' = [solHist EXCEPT ![inflight[r].id].created = TRUE]
            /\ ReplyArg("postSolution", inflight[r].tok, inflight[r].id, p, 201, {})

\* PUT /api/solutions/:id
PutSolution(tok, s, b) ==
    /\ UNCHANGED <<users, problems, nextProblem, nextSolution, posts, nextPost, inflight, hist, solHist>>
    /\ IF ~auth(tok)
       THEN Reply("putSolution", tok, s, 401, {}) /\ UNCHANGED solutions
       ELSE IF ~FindSolution(s)
       THEN Reply("putSolution", tok, s, 404, {}) /\ UNCHANGED solutions
       ELSE IF solutions[s].proposedBy # tok /\ users[tok].role # "admin"
       THEN Reply("putSolution", tok, s, 403, {}) /\ UNCHANGED solutions
       ELSE LET doc == Assign(LoadSolution(s), b) IN
            IF ~ValidSolution(doc)
            THEN Reply("putSolution", tok, s, 500, {}) /\ UNCHANGED solutions
            ELSE /\ solutions' = Put(solutions, s, doc)
                 /\ Reply("putSolution", tok, s, 200, {})

\* PUT /api/solutions/:id/status declared without adminAuth.
PutSolutionStatusAnyCaller(tok, s, status) ==
    /\ UNCHANGED <<users, problems, nextProblem, nextSolution, posts, nextPost, inflight, hist, solHist>>
    /\ IF ~auth(tok)
       THEN ReplyArg("solutionStatus", tok, s, status, 401, {}) /\ UNCHANGED solutions
       ELSE IF ~FindSolution(s)
       THEN ReplyArg("solutionStatus", tok, s, status, 404, {}) /\ UNCHANGED solutions
       ELSE LET doc == [LoadSolution(s) EXCEPT
                          !.status = status,
                          !.implementedAt = IF status = "implemented" THEN Stamped ELSE @]
            IN IF ~ValidSolution(doc)
               THEN ReplyArg("solutionStatus", tok, s, status, 500, {})
                    /\ UNCHANGED solutions
               ELSE /\ solutions' = Put(solutions, s, doc)
                    /\ ReplyArg("solutionStatus", tok, s, status, 200, {})

\* PUT /api/solutions/:id/status
PutSolutionStatus(tok, s, status) ==
    /\ UNCHANGED <<users, problems, nextProblem, nextSolution, posts, nextPost, inflight, hist, solHist>>
    /\ IF ~auth(tok)
       THEN ReplyArg("solutionStatus", tok, s, status, 401, {}) /\ UNCHANGED solutions
       ELSE IF ~adminAuth(tok)
       THEN ReplyArg("solutionStatus", tok, s, status, 403, {}) /\ UNCHANGED solutions
       ELSE IF ~FindSolution(s)
       THEN ReplyArg("solutionStatus", tok, s, status, 404, {}) /\ UNCHANGED solutions
       ELSE LET doc == [LoadSolution(s) EXCEPT
                          !.status = status,
                          !.implementedAt = IF status = "implemented" THEN Stamped ELSE @]
            IN IF ~ValidSolution(doc)
               THEN ReplyArg("solutionStatus", tok, s, status, 500, {})
                    /\ UNCHANGED solutions
               ELSE /\ solutions' = Put(solutions, s, doc)
                    /\ ReplyArg("solutionStatus", tok, s, status, 200, {})

\* POST /api/solutions/:id/upvote
UpvoteSolution(tok, s) ==
    /\ UNCHANGED <<users, problems, nextProblem, nextSolution, posts, nextPost, inflight, hist, solHist>>
    /\ IF ~auth(tok)
       THEN Reply("upvoteSolution", tok, s, 401, {}) /\ UNCHANGED solutions
       ELSE IF ~FindSolution(s)
       THEN Reply("upvoteSolution", tok, s, 404, {}) /\ UNCHANGED solutions
       ELSE /\ solutions' = Put(solutions, s,
                                [LoadSolution(s) EXCEPT !.upvotes = Toggle(@, tok)])
            /\ ReplyFound("upvoteSolution", tok, s, None, 200, {},
                          Range(solutions[s].upvotes))

\* DELETE /api/solutions/:id, up to the $pull being issued: auth,
\* Solution.findById and the proposer-or-admin check.
DeleteSolutionFind(r, tok, s) ==
    /\ Free(r)
    /\ UNCHANGED <<hist, solHist>>
    /\ NoDbChange
    /\ IF ~auth(tok)
       THEN Reply("deleteSolution", tok, s, 401, {}) /\ UNCHANGED inflight
       ELSE IF ~FindSolution(s)
       THEN Reply("deleteSolution", tok, s, 404, {}) /\ UNCHANGED inflight
       ELSE IF solutions[s].proposedBy # tok /\ users[tok].role # "admin"
       THEN Reply("deleteSolution", tok, s, 403, {}) /\ UNCHANGED inflight
       ELSE /\ Begin(r, [op |-> "deleteSolution", pc |-> "pull",
                         tok |-> tok, id |-> s, problem |-> solutions[s].problem,
                         afterCreate |-> solHist[s].created, wrote |-> FALSE])
            /\ UNCHANGED resp

\* Problem.findByIdAndUpdate(solution.problem, { $pull: { solutions: id } }):
\* nothing happens when no such problem is stored.
DeleteSolutionPull(r) ==
    /\ At(r, "deleteSolution", "pull")
    /\ LET p == inflight[r].problem IN
       IF FindProblem(p)
       THEN SaveProblem(p, [problems[p] EXCEPT !.solutions = Pull(@, inflight[r].id)])
       ELSE UNCHANGED problems
    /\ inflight' = [inflight EXCEPT ![r].pc = "delete",
                                    ![r].wrote = (problems' # problems)]
    /\ UNCHANGED <<users, nextProblem, solutions, nextSolution, posts, nextPost, resp, hist, solHist>>

\* Solution.findByIdAndDelete(req.params.id), then the 200.
DeleteSolutionRemove(r) ==
    /\ At(r, "deleteSolution", "delete")
    /\ solutions' = Remove(solutions, {inflight[r].id})
    /\ Reply("deleteSolution", inflight[r].tok, inflight[r].id, 200, {})
    /\ Finish(r)
    /\ UNCHANGED <<users, problems, nextProblem, nextSolution, posts, nextPost, hist, solHist>>

----------------------------------------------------------------------------
(* routes/forum.js *)

\* The ForumPost schema's defaults, with author set by the handler.
NewPost(author) ==
    [author |-> author,
     isPinned |-> FALSE,
     upvotes |-> <<>>,
     comments |-> <<>>]

\* POST /api/forum: the express-validator chain on the body.
ValidPostForum(b) == "title" \in DOMAIN b

FindPost(f) == f \in DOMAIN posts

\* post.comments.id(commentId): the position of the comment with that
\* _id, 0 when the post has none.
RECURSIVE CommentFrom(_, _, _)
CommentFrom(comments, c, i) ==
    IF i > Len(comments) THEN 0
    ELSE IF comments[i].id = c THEN i
    ELSE CommentFrom(comments, c, i + 1)

CommentById(comments, c) == CommentFrom(comments, c, 1)

\* POST /api/forum
PostForum(tok, b) ==
    /\ nextPost <= MaxPosts
    /\ UNCHANGED <<users, problems, nextProblem, solutions, nextSolution,
                   inflight, hist, solHist>>
    /\ IF ~auth(tok)
       THEN Reply("postForum", tok, 0, 401, {}) /\ UNCHANGED <<posts, nextPost>>
       ELSE IF ~ValidPostForum(b)
       THEN Reply("postForum", tok, 0, 400, {}) /\ UNCHANGED <<posts, nextPost>>
       ELSE /\ posts' = Put(posts, nextPost,
                            [Assign(NewPost(tok), b) EXCEPT !.author = tok])
            /\ nextPost' = nextPost + 1
            /\ Reply("postForum", tok, nextPost, 201, {})

\* PUT /api/forum/:id without the author-or-admin check.
PutForumAnyCaller(tok, f, b) ==
    /\ UNCHANGED <<users, problems, nextProblem, solutions, nextSolution,
                   nextPost, inflight, hist, solHist>>
    /\ IF ~auth(tok)
       THEN Reply("putForum", tok, f, 401, {}) /\ UNCHANGED posts
       ELSE IF ~FindPost(f)
       THEN Reply("putForum", tok, f, 404, {}) /\ UNCHANGED posts
       ELSE /\ posts' = Put(posts, f, Assign(posts[f], b))
            /\ Reply("putForum", tok, f, 200, {})

\* PUT /api/forum/:id
PutForum(tok, f, b) ==
    /\ UNCHANGED <<users, problems, nextProblem, solutions, nextSolution,
                   nextPost, inflight, hist, solHist>>
    /\ IF ~auth(tok)
       THEN Reply("putForum", tok, f, 401, {}) /\ UNCHANGED posts
       ELSE IF ~FindPost(f)
       THEN Reply("putForum", tok, f, 404, {}) /\ UNCHANGED posts
       ELSE IF posts[f].author # tok /\ users[tok].role # "admin"
       THEN Reply("putForum", tok, f, 403, {}) /\ UNCHANGED posts
       ELSE /\ posts' = Put(posts, f, Assign(posts[f], b))
            /\ Reply("putForum", tok, f, 200, {})

\* PUT /api/forum/:id/pin
TogglePin(tok, f) ==
    /\ UNCHANGED <<users, problems, nextProblem, solutions, nextSolution,
                   nextPost, inflight, hist, solHist>>
    /\ IF ~auth(tok)
       THEN Reply("pin", tok, f, 401, {}) /\ UNCHANGED posts
       ELSE IF ~adminAuth(tok)
       THEN Reply("pin", tok, f, 403, {}) /\ UNCHANGED posts
       ELSE IF ~FindPost(f)
       THEN Reply("pin", tok, f, 404, {}) /\ UNCHANGED posts
       ELSE /\ posts' = Put(posts, f, [posts[f] EXCEPT !.isPinned = ~@])
            /\ Reply("pin", tok, f, 200, {})

\* DELETE /api/forum/:id
DeleteForum(tok, f) ==
    /\ UNCHANGED <<users, problems, nextProblem, solutions, nextSolution,
                   nextPost, inflight, hist, solHist>>
    /\ IF ~auth(tok)
       THEN Reply("deleteForum", tok, f, 401, {}) /\ UNCHANGED posts
       ELSE IF ~FindPost(f)
       THEN Reply("deleteForum", tok, f, 404, {}) /\ UNCHANGED posts
       ELSE IF posts[f].author # tok /\ users[tok].role # "admin"
       THEN Reply("deleteForum", tok, f, 403, {}) /\ UNCHANGED posts
       ELSE /\ posts' = Remove(posts, {f})
            /\ Reply("deleteForum", tok, f, 200, {})

\* POST /api/forum/:id/upvote
UpvotePost(tok, f) ==
    /\ UNCHANGED <<users, problems, nextProblem, solutions, nextSolution,
                   nextPost, inflight, hist, solHist>>
    /\ IF ~auth(tok)
       THEN Reply("upvotePost", tok, f, 401, {}) /\ UNCHANGED posts
       ELSE IF ~FindPost(f)
       THEN Reply("upvotePost", tok, f, 404, {}) /\ UNCHANGED posts
       ELSE /\ posts' = Put(posts, f, [posts[f] EXCEPT !.upvotes = Toggle(@, tok)])
            /\ ReplyFound("upvotePost", tok, f, None, 200, {}, Range(posts[f].upvotes))

\* POST /api/forum/:id/comments
PostForumComment(tok, f, b) ==
    /\ f \in DOMAIN posts => Len(posts[f].comments) < MaxComments
    /\ UNCHANGED <<users, problems, nextProblem, solutions, nextSolution,
                   nextPost, inflight, hist, solHist>>
    /\ IF ~auth(tok)
       THEN Reply("postComment", tok, f, 401, {}) /\ UNCHANGED posts
       ELSE IF "text" \notin DOMAIN b
       THEN Reply("postComment", tok, f, 400, {}) /\ UNCHANGED posts
       ELSE IF ~FindPost(f)
       THEN Reply("postComment", tok, f, 404, {}) /\ UNCHANGED posts
       ELSE /\ posts' = Put(posts, f,
                   [posts[f] EXCEPT !.comments =
                       Append(@, [id |-> Len(@) + 1, user |-> tok, upvotes |-> <<>>])])
            /\ Reply("postComment", tok, f, 200, {})

\* POST /api/forum/:id/comments/:commentId/upvote
UpvoteComment(tok, f, c) ==
    /\ UNCHANGED <<users, problems, nextProblem, solutions, nextSolution,
                   nextPost, inflight, hist, solHist>>
    /\ IF ~auth(tok)
       THEN ReplyArg("upvoteComment", tok, f, c, 401, {}) /\ UNCHANGED posts
       ELSE IF ~FindPost(f)
       THEN ReplyArg("upvoteComment", tok, f, c, 404, {}) /\ UNCHANGED posts
       ELSE LET i == CommentById(posts[f].comments, c) IN
            IF i = 0
            THEN ReplyArg("upvoteComment", tok, f, c, 404, {}) /\ UNCHANGED posts
            ELSE /\ posts' = Put(posts, f,
                        [posts[f] EXCEPT !.comments[i].upvotes = Toggle(@, tok)])
                 /\ ReplyFound("upvoteComment", tok, f, c, 200, {},
                               Range(posts[f].comments[i].upvotes))

----------------------------------------------------------------------------
(* The upvote handlers between their awaits.  Each one is                 *)
(*   doc = await Model.findById(id); toggle on doc.upvotes; await         *)
(*   doc.save()                                                           *)
(* and save() writes what the toggle did to the loaded array: push() is   *)
(* sent as a $push on the stored array, splice() as a $set of the whole   *)
(* array that carries the version the document was loaded with, and that  *)
(* fails (VersionError) when an array write has been saved since.         *)

UpvoteOps == {"upvoteProblem", "upvoteSolution", "upvotePost"}

\* The request suspended at its save, with the array it loaded.  `stale'
\* says an array write of the same document has been saved since the load.
Loaded(op, tok, id, upvotes) ==
    [op |-> op, pc |-> "save", tok |-> tok, target |-> id,
     loaded |-> upvotes, stale |-> FALSE, wrote |-> FALSE]

\* The toggle of request r removes (splice) rather than adds (push).
Splices(r) == IndexOf(inflight[r].loaded, inflight[r].tok) > 0

\* What save() stores: the $set of the spliced loaded array, or the $push
\* onto the array as it is stored now.
SavedUpvotes(r, stored) ==
    IF Splices(r)
    THEN SpliceOne(inflight[r].loaded, IndexOf(inflight[r].loaded, inflight[r].tok))
    ELSE Append(stored, inflight[r].tok)

\* Request r has answered, and its write has bumped the version of the
\* document the other requests on it have loaded.
Settle(r) ==
    inflight' = [q \in Slots |->
                   IF q = r THEN Idle
                   ELSE IF /\ inflight[q].op = inflight[r].op
                           /\ inflight[q].target = inflight[r].target
                        THEN [inflight[q] EXCEPT !.stale = TRUE]
                        ELSE inflight[q]]

\* POST /api/problems/:id/upvote up to the save: auth, Problem.findById.
UpvoteProblemFind(r, tok, p) ==
    /\ Free(r)
    /\ UNCHANGED <<hist, solHist>>
    /\ NoDbChange
    /\ IF ~auth(tok)
       THEN Reply("upvoteProblem", tok, p, 401, {}) /\ UNCHANGED inflight
       ELSE IF ~FindProblem(p)
       THEN Reply("upvoteProblem", tok, p, 404, {}) /\ UNCHANGED inflight
       ELSE /\ Begin(r, Loaded("upvoteProblem", tok, p, problems[p].upvotes))
            /\ UNCHANGED resp

\* await problem.save(); res.json(problem)
UpvoteProblemSave(r) ==
    /\ At(r, "upvoteProblem", "save")
    /\ UNCHANGED <<users, nextProblem, solutions, nextSolution, posts, nextPost, hist, solHist>>
    /\ LET p == inflight[r].target IN
       IF ~FindProblem(p) \/ (Splices(r) /\ inflight[r].stale)
       THEN /\ Reply("upvoteProblem", inflight[r].tok, p, 500, {})
            /\ Finish(r)
            /\ UNCHANGED problems
       ELSE /\ SaveProblem(p, [problems[p] EXCEPT !.upvotes = SavedUpvotes(r, @)])
            /\ Settle(r)
            /\ ReplyFound("upvoteProblem", inflight[r].tok, p, None, 200, {},
                          Range(inflight[r].loaded))

\* POST /api/solutions/:id/upvote up to the save: auth, Solution.findById.
UpvoteSolutionFind(r, tok, s) ==
    /\ Free(r)
    /\ UNCHANGED <<hist, solHist>>
    /\ NoDbChange
    /\ IF ~auth(tok)
       THEN Reply("upvoteSolution", tok, s, 401, {}) /\ UNCHANGED inflight
       ELSE IF ~FindSolution(s)
       THEN Reply("upvoteSolution", tok, s, 404, {}) /\ UNCHANGED inflight
       ELSE /\ Begin(r, Loaded("upvoteSolution", tok, s, solutions[s].upvotes))
            /\ UNCHANGED resp

\* await solution.save(); res.json(solution)
UpvoteSolutionSave(r) ==
    /\ At(r, "upvoteSolution", "save")
    /\ UNCHANGED <<users, problems, nextProblem, nextSolution, posts, nextPost, hist, solHist>>
    /\ LET s == inflight[r].target IN
       IF ~FindSolution(s) \/ (Splices(r) /\ inflight[r].stale)
       THEN /\ Reply("upvoteSolution", inflight[r].tok, s, 500, {})
            /\ Finish(r)
            /\ UNCHANGED solutions
       ELSE /\ solutions' = Put(solutions, s,
                                [solutions[s] EXCEPT !.upvotes = SavedUpvotes(r, @)])
            /\ Settle(r)
            /\ ReplyFound("upvoteSolution", inflight[r].tok, s, None, 200, {},
                          Range(inflight[r].loaded))

\* POST /api/forum/:id/upvote up to the save: auth, ForumPost.findById.
UpvotePostFind(r, tok, f) ==
    /\ Free(r)
    /\ UNCHANGED <<hist, solHist>>
    /\ NoDbChange
    /\ IF ~auth(tok)
       THEN Reply("upvotePost", tok, f, 401, {}) /\ UNCHANGED inflight
       ELSE IF ~FindPost(f)
       THEN Reply("upvotePost", tok, f, 404, {}) /\ UNCHANGED inflight
       ELSE /\ Begin(r, Loaded("upvotePost", tok, f, posts[f].upvotes))
            /\ UNCHANGED resp

\* await post.save(); res.json(post)
UpvotePostSave(r) ==
    /\ At(r, "upvotePost", "save")
    /\ UNCHANGED <<users, problems, nextProblem, solutions, nextSolution, nextPost, hist, solHist>>
    /\ LET f == inflight[r].target IN
       IF ~FindPost(f) \/ (Splices(r) /\ inflight[r].stale)
       THEN /\ Reply("upvotePost", inflight[r].tok, f, 500, {})
            /\ Finish(r)
            /\ UNCHANGED posts
       ELSE /\ posts' = Put(posts, f, [posts[f] EXCEPT !.upvotes = SavedUpvotes(r, @)])
            /\ Settle(r)
            /\ ReplyFound("upvotePost", inflight[r].tok, f, None, 200, {},
                          Range(inflight[r].loaded))

----------------------------------------------------------------------------
(* Visibility: who may read which problem.  The requests that read       *)
(* problems and the requests that write isVerified, one at a time.       *)

\* Bodies sent to POST /api/problems: a plain report, one that carries
\* isVerified, one with a category outside the enum and one with a status
\* outside the enum.
ViewPostBodies ==
    { [category |-> "water"],
      [category |-> "water", isVerified |-> TRUE],
      [category |-> "mining"],
      [category |-> "water", status |-> "bogus"] }

\* Bodies sent to PUT /api/problems/:id.
ViewPutBodies ==
    { [isVerified |-> TRUE],
      [isCompletedByVillager |-> TRUE],
      [status |-> "bogus"] }

NextView ==
    \/ \E tok \in Tokens, st \in {None, "open"} : GetProblems(tok, st)
    \/ \E tok \in Tokens, p \in ProblemIds : GetProblemById(tok, p)
    \/ \E tok \in {"vilA", "adm", NoToken}, b \in ViewPostBodies : PostProblem(tok, b)
    \/ \E tok \in {"vilA", "vilB", "adm"}, p \in ProblemIds, b \in ViewPutBodies :
          PutProblem(tok, p, b)
    \/ \E tok \in {"adm", "vilA"}, p \in ProblemIds : PutProblemVerify(tok, p)
    \/ \E tok \in {"adm", "vol"}, p \in ProblemIds : PutProblemVerifyCompletion(tok, p)

SpecView == Init /\ [][NextView]_vars

----------------------------------------------------------------------------
(* Workflow: report, assign, complete, verify completion, one request    *)
(* at a time.                                                            *)

FlowPostBodies ==
    { [category |-> "water"],
      [category |-> "water", isCompletedByVillager |-> TRUE] }

FlowPutBodies ==
    { [isCompletedByVillager |-> TRUE] }

\* Bodies sent to PUT /api/problems/:id/status: a status with an assignee,
\* and a status outside the enum with none.
FlowStatusBodies ==
    { [status |-> "closed", assignedTo |-> "vilB"],
      [status |-> "bogus", assignedTo |-> None] }

NextFlow ==
    \/ \E tok \in {"vilA", NoToken}, b \in FlowPostBodies : PostProblem(tok, b)
    \/ \E tok \in {"vilA", "vilB"}, p \in ProblemIds, b \in FlowPutBodies :
          PutProblem(tok, p, b)
    \/ \E tok \in {"adm", "vilA"}, p \in ProblemIds, b \in FlowStatusBodies :
          PutProblemStatus(tok, p, b.status, b.assignedTo)
    \/ \E tok \in {"vilA", "vilB", "vol"}, p \in ProblemIds : PutProblemComplete(tok, p)
    \/ \E tok \in {"adm", "vilB"}, p \in ProblemIds : PutProblemVerifyCompletion(tok, p)
    \/ \E tok \in {"adm", "vol"}, p \in ProblemIds, a \in {"vilB", "vol", GhostUser} :
          AdminAssignProblem(tok, p, a)

SpecFlow == Init /\ [][NextFlow]_vars

----------------------------------------------------------------------------
(* The Problem <-> Solution link: solution create, update and delete and *)
(* problem create, update and delete, interleaved at their awaits.       *)

LinkPostBodies ==
    { [problem |-> p] : p \in ProblemIds } \cup { [title |-> "t"] }

\* PUT /api/solutions/:id with a body that carries the problem field.
LinkPutSolutionBodies ==
    { [problem |-> p] : p \in ProblemIds }

\* PUT /api/problems/:id with a body that carries the solutions list.
LinkPutProblemBodies == { [solutions |-> <<>>] }

NextLink ==
    \/ \E tok \in {"vilA"}, b \in {[category |-> "water"]} : PostProblem(tok, b)
    \/ \E tok \in {"vilA"}, p \in ProblemIds, b \in LinkPutProblemBodies :
          PutProblem(tok, p, b)
    \/ \E r \in Slots, tok \in {"adm"}, p \in ProblemIds :
          DeleteProblemFind(r, tok, p)
    \/ \E r \in Slots : DeleteProblemSolutions(r)
    \/ \E r \in Slots : DeleteProblemRemove(r)
    \/ \E r \in Slots, tok \in {"vilA"}, b \in LinkPostBodies :
          PostSolutionFind(r, tok, b)
    \/ \E r \in Slots : PostSolutionSave(r)
    \/ \E r \in Slots : PostSolutionPush(r)
    \/ \E tok \in {"vilA"}, s \in SolutionIds, b \in LinkPutSolutionBodies :
          PutSolution(tok, s, b)
    \/ \E r \in Slots, tok \in {"vilA", "vilB"}, s \in SolutionIds :
          DeleteSolutionFind(r, tok, s)
    \/ \E r \in Slots : DeleteSolutionPull(r)
    \/ \E r \in Slots : DeleteSolutionRemove(r)

SpecLink == Init /\ [][NextLink]_vars

----------------------------------------------------------------------------
(* Upvotes: the four toggle handlers on a problem, a solution, a forum   *)
(* post and a forum comment, one request at a time, and the update that  *)
(* writes a problem's upvotes from the body.                             *)

Voters == {"vilA", "vilB"}

\* PUT /api/problems/:id with a body that carries the upvotes array.
VotePutBodies == { [upvotes |-> <<"vilB", "vilB">>] }

NextVotes ==
    \/ \E b \in {[category |-> "water"]} :
          nextProblem <= MaxVoteDocs /\ PostProblem("vilA", b)
    \/ \E p \in ProblemIds, b \in VotePutBodies : PutProblem("vilA", p, b)
    \/ \E r \in Slots, b \in {[problem |-> 1]} :
          nextSolution <= MaxVoteDocs /\ PostSolutionFind(r, "vilA", b)
    \/ \E r \in Slots : PostSolutionSave(r)
    \/ \E r \in Slots : PostSolutionPush(r)
    \/ \E b \in {[title |-> "t"]} : PostForum("vilA", b)
    \/ \E f \in 1..MaxPosts, b \in {[text |-> "c"]} : PostForumComment("vilA", f, b)
    \/ \E tok \in Voters \cup {NoToken}, p \in ProblemIds : UpvoteProblem(tok, p)
    \/ \E tok \in Voters, s \in SolutionIds : UpvoteSolution(tok, s)
    \/ \E tok \in Voters, f \in 1..MaxPosts : UpvotePost(tok, f)
    \/ \E tok \in Voters, f \in 1..MaxPosts, c \in 1..MaxComments + 1 :
          UpvoteComment(tok, f, c)

SpecVotes == Init /\ [][NextVotes]_vars

----------------------------------------------------------------------------
(* Concurrent upvotes: the toggles of a problem, a solution and a forum  *)
(* post interleaved at their awaits, on documents created by the create  *)
(* requests.                                                             *)

NextToggle ==
    \/ \E b \in {[category |-> "water"]} :
          nextProblem <= MaxVoteDocs /\ PostProblem("vilA", b)
    \/ \E r \in Slots, b \in {[problem |-> 1]} :
          nextSolution <= MaxVoteDocs /\ PostSolutionFind(r, "vilA", b)
    \/ \E r \in Slots : PostSolutionSave(r)
    \/ \E r \in Slots : PostSolutionPush(r)
    \/ \E b \in {[title |-> "t"]} : PostForum("vilA", b)
    \/ \E r \in Slots, tok \in Voters \cup {NoToken}, p \in ProblemIds :
          /\ FindProblem(p) => Len(problems[p].upvotes) < MaxUpvotes
          /\ UpvoteProblemFind(r, tok, p)
    \/ \E r \in Slots : UpvoteProblemSave(r)
    \/ \E r \in Slots, tok \in {"vilB"}, s \in SolutionIds :
          /\ FindSolution(s) => Len(solutions[s].upvotes) < MaxUpvotes
          /\ UpvoteSolutionFind(r, tok, s)
    \/ \E r \in Slots : UpvoteSolutionSave(r)
    \/ \E r \in Slots, tok \in {"vilB"}, f \in 1..MaxPosts :
          /\ FindPost(f) => Len(posts[f].upvotes) < MaxUpvotes
          /\ UpvotePostFind(r, tok, f)
    \/ \E r \in Slots : UpvotePostSave(r)

SpecToggle == Init /\ [][NextToggle]_vars

----------------------------------------------------------------------------
(* Administration: users change role and are deleted while problems are  *)
(* assigned, one request at a time.                                      *)

\* Bodies sent to PUT /api/admin/users/:id/role: two roles of the enum, a
\* role outside it and no role.
AdminRoleBodies ==
    { [role |-> "volunteer"], [role |-> "admin"], [role |-> "superuser"],
      [other |-> "x"] }

AdminStatusBodies ==
    { [status |-> "in-progress", assignedTo |-> "vol"] }

\* Bodies sent to PUT /api/problems/:id: one that carries assignedTo and
\* one that carries reportedBy.
AdminPutBodies == { [assignedTo |-> GhostUser], [reportedBy |-> "vilB"] }

\* Bodies sent to POST /api/problems: a plain report and one that carries
\* reportedBy.
AdminPostBodies ==
    { [category |-> "water"], [category |-> "water", reportedBy |-> "vilB"] }

NextAdmin ==
    \/ \E b \in AdminPostBodies :
          nextProblem <= MaxAdminDocs /\ PostProblem("vilA", b)
    \/ \E tok \in {"adm", "vol"}, p \in 1..MaxAdminDocs,
          a \in {"vilB", "vol", GhostUser, MalformedId} : AdminAssignProblem(tok, p, a)
    \/ \E p \in 1..MaxAdminDocs, b \in AdminStatusBodies :
          PutProblemStatus("adm", p, b.status, b.assignedTo)
    \/ \E tok \in {"vilA", "adm"}, p \in 1..MaxAdminDocs, b \in AdminPutBodies :
          PutProblem(tok, p, b)
    \/ \E tok \in {"adm", "vilA"}, u \in {"vilB", "vol", GhostUser}, b \in AdminRoleBodies :
          PutUserRole(tok, u, b)
    \/ \E tok \in {"adm", "vilA", "vilB"}, u \in {"adm", "vilB", GhostUser} :
          DeleteUser(tok, u)

SpecAdmin == Init /\ [][NextAdmin]_vars

----------------------------------------------------------------------------
(* Admin-only routes, called by an admin, villagers, a volunteer and     *)
(* with no token, while a villager is promoted and demoted.              *)

Callers == {"adm", "vilB", "vol", NoToken}

GuardRoleBodies == { [role |-> "admin"], [role |-> "villager"] }

NextGuard ==
    \/ \E b \in {[category |-> "water"]} :
          nextProblem <= MaxAdminDocs /\ PostProblem("vilA", b)
    \/ \E r \in Slots, b \in {[problem |-> 1]} :
          nextSolution <= MaxAdminDocs /\ PostSolutionFind(r, "vilA", b)
    \/ \E r \in Slots : PostSolutionSave(r)
    \/ \E r \in Slots : PostSolutionPush(r)
    \/ \E b \in {[title |-> "t"]} : PostForum("vilA", b)
    \/ \E tok \in Callers, p \in 1..MaxAdminDocs : PutProblemStatus(tok, p, "resolved", None)
    \/ \E tok \in Callers, p \in 1..MaxAdminDocs : PutProblemVerify(tok, p)
    \/ \E tok \in Callers, p \in 1..MaxAdminDocs : PutProblemVerifyCompletion(tok, p)
    \/ \E tok \in Callers, p \in 1..MaxAdminDocs : AdminAssignProblem(tok, p, "vilA")
    \/ \E r \in Slots, tok \in Callers, p \in 1..MaxAdminDocs : DeleteProblemFind(r, tok, p)
    \/ \E r \in Slots : DeleteProblemSolutions(r)
    \/ \E r \in Slots : DeleteProblemRemove(r)
    \/ \E tok \in Callers, s \in 1..MaxAdminDocs : PutSolutionStatus(tok, s, "approved")
    \/ \E tok \in Callers, f \in 1..MaxPosts : TogglePin(tok, f)
    \/ \E tok \in Callers, b \in GuardRoleBodies : PutUserRole(tok, "vilB", b)
    \/ \E tok \in Callers : DeleteUser(tok, GhostUser)

SpecGuard == Init /\ [][NextGuard]_vars

----------------------------------------------------------------------------
(* Owner-or-admin routes, called by the owner, another villager, a       *)
(* volunteer and an admin, while a villager is promoted and demoted.     *)

Authenticated == {"adm", "vilA", "vilB", "vol"}

NextOwner ==
    \/ \E b \in {[category |-> "water"]} :
          nextProblem <= MaxAdminDocs /\ PostProblem("vilA", b)
    \/ \E r \in Slots, b \in {[problem |-> 1]} :
          nextSolution <= MaxAdminDocs /\ PostSolutionFind(r, "vilA", b)
    \/ \E r \in Slots : PostSolutionSave(r)
    \/ \E r \in Slots : PostSolutionPush(r)
    \/ \E b \in {[title |-> "t"]} : PostForum("vilA", b)
    \/ \E b \in GuardRoleBodies : PutUserRole("adm", "vilB", b)
    \/ \E tok \in Authenticated, p \in 1..MaxAdminDocs, b \in {[reportedBy |-> "vol"]} :
          PutProblem(tok, p, b)
    \/ \E tok \in Authenticated, s \in 1..MaxAdminDocs, b \in {[status |-> "rejected"]} :
          PutSolution(tok, s, b)
    \/ \E r \in Slots, tok \in Authenticated, s \in 1..MaxAdminDocs :
          DeleteSolutionFind(r, tok, s)
    \/ \E r \in Slots : DeleteSolutionPull(r)
    \/ \E r \in Slots : DeleteSolutionRemove(r)
    \/ \E tok \in Authenticated, f \in 1..MaxPosts, b \in {[isPinned |-> TRUE]} :
          PutForum(tok, f, b)
    \/ \E tok \in Authenticated, f \in 1..MaxPosts : DeleteForum(tok, f)

SpecOwner == Init /\ [][NextOwner]_vars

----------------------------------------------------------------------------
(* Optional authentication: the two public reads of problems, called     *)
(* with every kind of token, while users are deleted and change role.    *)

ReadTokens == {"vol", "vilB", NoToken, MalformedToken, ExpiredToken}

NextRead ==
    \/ \E b \in {[category |-> "water"]} : PostProblem("vilA", b)
    \/ \E p \in ProblemIds : PutProblemVerify("adm", p)
    \/ \E b \in {[role |-> "volunteer"], [role |-> "villager"]} :
          PutUserRole("adm", "vilB", b)
    \/ \E u \in {"vol", "vilB"} : DeleteUser("adm", u)
    \/ \E tok \in ReadTokens, st \in {None, "open"} : GetProblems(tok, st)
    \/ \E tok \in ReadTokens, p \in ProblemIds : GetProblemById(tok, p)

SpecRead == Init /\ [][NextRead]_vars

----------------------------------------------------------------------------
(* The workflow operations alone: create with a body that has no status, *)
(* set-status, assign, mark-complete, verify and verify-completion, one  *)
(* request at a time.                                                    *)

\* Bodies sent to POST /api/problems, none with a status field.
WorkPostBodies ==
    { [category |-> "water"],
      [category |-> "water", isCompletedByVillager |-> TRUE] }

NextWork ==
    \/ \E b \in WorkPostBodies : PostProblem("vilA", b)
    \/ \E p \in ProblemIds, st \in {"resolved", "open"} :
          PutProblemStatus("adm", p, st, None)
    \/ \E p \in ProblemIds, a \in {"vilA", "vilB"} : AdminAssignProblem("adm", p, a)
    \/ \E tok \in {"vilA", "vilB"}, p \in ProblemIds : PutProblemComplete(tok, p)
    \/ \E p \in ProblemIds : PutProblemVerify("adm", p)
    \/ \E p \in ProblemIds : PutProblemVerifyCompletion("adm", p)

SpecWork == Init /\ [][NextWork]_vars

\* The same operations on problems created from a body that holds the
\* validated fields only.
NextPlainWork ==
    \/ \E b \in {[category |-> "water"]} : PostProblem("vilA", b)
    \/ \E p \in ProblemIds, st \in {"resolved", "open"} :
          PutProblemStatus("adm", p, st, None)
    \/ \E p \in ProblemIds, a \in {"vilA", "vilB"} : AdminAssignProblem("adm", p, a)
    \/ \E tok \in {"vilA", "vilB"}, p \in ProblemIds : PutProblemComplete(tok, p)
    \/ \E p \in ProblemIds : PutProblemVerify("adm", p)
    \/ \E p \in ProblemIds : PutProblemVerifyCompletion("adm", p)

SpecPlainWork == Init /\ [][NextPlainWork]_vars

\* Create, update and set-status of problems and solutions, with a status
\* of the enum, a status outside it, and no status in the body.
BogusStatus == "done"

StatusPostProblemBodies ==
    { [category |-> "water"],
      [category |-> "water", status |-> "closed"],
      [category |-> "water", status |-> BogusStatus] }

StatusPutProblemBodies ==
    { [status |-> "in-progress"], [status |-> BogusStatus] }

StatusPostSolutionBodies ==
    { [problem |-> 1],
      [problem |-> 1, status |-> "approved"],
      [problem |-> 1, status |-> BogusStatus] }

StatusPutSolutionBodies ==
    { [status |-> "rejected"], [status |-> BogusStatus] }

\* const { status } = req.body: undefined when the body has no status.
ProblemStatusInputs == {"resolved", BogusStatus, Unset}

SolutionStatusInputs == {"implemented", BogusStatus, Unset}

NextStatus ==
    \/ \E b \in StatusPostProblemBodies : PostProblem("vilA", b)
    \/ \E p \in ProblemIds, b \in StatusPutProblemBodies : PutProblem("vilA", p, b)
    \/ \E p \in ProblemIds, st \in ProblemStatusInputs :
          PutProblemStatus("adm", p, st, None)
    \/ \E r \in Slots, b \in StatusPostSolutionBodies : PostSolutionFind(r, "vilA", b)
    \/ \E r \in Slots : PostSolutionSave(r)
    \/ \E r \in Slots : PostSolutionPush(r)
    \/ \E sol \in SolutionIds, b \in StatusPutSolutionBodies : PutSolution("vilA", sol, b)
    \/ \E sol \in SolutionIds, st \in SolutionStatusInputs :
          PutSolutionStatus("adm", sol, st)

SpecStatus == Init /\ [][NextStatus]_vars

----------------------------------------------------------------------------
(* Every request the model has *)

Next == NextView \/ NextFlow \/ NextLink \/ NextVotes \/ NextToggle \/ NextAdmin \/ NextGuard \/ NextOwner \/ NextRead \/ NextWork \/ NextPlainWork \/ NextStatus

Spec == Init /\ [][Next]_vars

----------------------------------------------------------------------------
(* Properties of the Problem <-> Solution link *)

\* The request in slot r ends in this step with a 2xx answer.
Succeeds(r, op, pc) ==
    /\ At(r, op, pc)
    /\ inflight'[r] = Idle
    /\ resp'.status \in {200, 201}

\* C1: a successful solution-create for P leaves the new id exactly once in
\* P.solutions, and a successful solution-delete of that solution that was
\* sent after the create was answered leaves P.solutions without that id.
C1_CreateDeleteLink ==
    [][ \A r \in Slots :
          /\ Succeeds(r, "postSolution", "saveProblem") =>
               Count(problems'[inflight[r].problem].solutions, inflight[r].id) = 1
          /\ (Succeeds(r, "deleteSolution", "delete") /\ inflight[r].afterCreate) =>
               LET P == solHist[inflight[r].id].createdFor IN
               P \in DOMAIN problems' =>
                   inflight[r].id \notin Range(problems'[P].solutions) ]_vars

\* C2: whenever no request is in flight, S is in P.solutions if and only
\* if solution S exists and S.problem = P.
C2_LinkConsistent ==
    Quiescent =>
        \A p \in DOMAIN problems, s \in SolutionIds :
            (s \in Range(problems[p].solutions))
                <=> (s \in DOMAIN solutions /\ solutions[s].problem = p)

\* The problems an admin's problem-delete has removed: ids are never
\* reused, so these are the ids handed out that are no longer stored.
DeletedProblems == {p \in ProblemIds : p < nextProblem /\ p \notin DOMAIN problems}

\* C3: once a problem-delete of P has completed and no request is in
\* flight, no solution has problem = P.
C3_DeleteCascades ==
    Quiescent =>
        \A p \in DeletedProblems, s \in DOMAIN solutions : solutions[s].problem # p

----------------------------------------------------------------------------
(* Properties of visibility and of the workflow *)

\* This step is a handler of one step answering a request to route op.
\* (Every such handler writes resp; the steps of the handlers in flight
\* change inflight.)
Answers(op) == resp'.op = op /\ inflight' = inflight

IsAdmin(tok) == tok \in DOMAIN users /\ users[tok].role = "admin"
IsVillager(tok) == tok \in DOMAIN users /\ users[tok].role = "villager"
IsVolunteer(tok) == tok \in DOMAIN users /\ users[tok].role = "volunteer"

\* The problems a list request with this status filter matches.
Matching(status) ==
    {p \in DOMAIN problems : status # None => problems[p].status = status}

\* C4: a caller whose resolved identity is a volunteer never receives an
\* unverified problem: its list holds exactly the matching verified
\* problems and its get-by-id of an unverified problem is a 403.  Any other
\* identity (admin, villager, anonymous) receives every matching problem
\* from list and a 200 with the problem from get-by-id, verified or not.
C4_VolunteerSeesOnlyVerified ==
    /\ resp.op = "list" =>
         /\ resp.status = 200
         /\ IF IsVolunteer(resp.caller)
            THEN resp.body = {View(p) : p \in {q \in Matching(resp.arg) :
                                                 problems[q].isVerified}}
            ELSE resp.body = {View(p) : p \in Matching(resp.arg)}
    /\ resp.op = "get" =>
         /\ (IsVolunteer(resp.caller) => \A v \in resp.body : v.isVerified)
         /\ (resp.target \in DOMAIN problems =>
               IF IsVolunteer(resp.caller) /\ ~problems[resp.target].isVerified
               THEN resp.status = 403 /\ resp.body = {}
               ELSE resp.status = 200 /\ resp.body = {View(resp.target)})

\* A volunteer's list that left an unverified problem out, after a villager
\* has been given one.
C4_Witness ==
    /\ resp.op = "list"
    /\ IsVolunteer(resp.caller)
    /\ resp.body # {}
    /\ \E p \in Matching(resp.arg) : ~problems[p].isVerified

\* An admin or villager does receive an unverified problem.
C4_WitnessVillager ==
    /\ resp.op = "get"
    /\ IsVillager(resp.caller)
    /\ \E v \in resp.body : ~v.isVerified

\* C5: a problem created by a non-admin user is visible to volunteers
\* (isVerified) only after an admin's verify or verify-completion of it
\* has succeeded.
C5_VerifiedOnlyByAdmin ==
    \A p \in DOMAIN problems :
        (hist[p].creatorRole # "admin" /\ problems[p].isVerified)
            => hist[p].adminVerified

\* C6: verify-completion by an admin on a problem whose
\* isCompletedByVillager is false answers 400 and changes no problem.
C6_VerifyCompletionRejected ==
    [][ (/\ Answers("verifyCompletion")
         /\ IsAdmin(resp'.caller)
         /\ resp'.target \in DOMAIN problems
         /\ ~problems[resp'.target].isCompletedByVillager)
        => (resp'.status = 400 /\ problems' = problems /\ hist' = hist) ]_vars

C6_Witness ==
    /\ resp.op = "verifyCompletion"
    /\ IsAdmin(resp.caller)
    /\ resp.status = 400

\* C7: mark-complete on an existing problem by a villager who is not its
\* assignedTo answers 403 and changes nothing, assigned or not.
C7_CompleteByOtherForbidden ==
    [][ (/\ Answers("complete")
         /\ IsVillager(resp'.caller)
         /\ resp'.target \in DOMAIN problems
         /\ problems[resp'.target].assignedTo # resp'.caller)
        => (resp'.status = 403 /\ problems' = problems) ]_vars

\* C8: the two-step resolve / verify workflow.  An admin's assign to a
\* villager succeeds and leaves the problem in-progress and assigned to
\* them; a complete by the assigned villager succeeds and leaves it
\* resolved, completed by the villager and stamped; an admin's
\* verify-completion of a completed problem succeeds and leaves it verified
\* and resolved.
C8_TwoStepWorkflow ==
    [][ /\ (/\ Answers("assign")
            /\ IsAdmin(resp'.caller)
            /\ resp'.target \in DOMAIN problems
            /\ IsVillager(resp'.arg))
           => /\ resp'.status = 200
              /\ problems'[resp'.target].status = "in-progress"
              /\ problems'[resp'.target].assignedTo = resp'.arg
        /\ (/\ Answers("complete")
            /\ IsVillager(resp'.caller)
            /\ resp'.target \in DOMAIN problems
            /\ problems[resp'.target].assignedTo = resp'.caller)
           => /\ resp'.status = 200
              /\ problems'[resp'.target].status = "resolved"
              /\ problems'[resp'.target].isCompletedByVillager
              /\ problems'[resp'.target].resolvedAt = Stamped
        /\ (/\ Answers("verifyCompletion")
            /\ IsAdmin(resp'.caller)
            /\ resp'.target \in DOMAIN problems
            /\ problems[resp'.target].isCompletedByVillager)
           => /\ resp'.status = 200
              /\ problems'[resp'.target].isVerified
              /\ problems'[resp'.target].status = "resolved" ]_vars

\* The whole workflow has run on a problem: assigned, completed by the
\* assigned villager, completion verified by the admin.
C8_Witness ==
    /\ resp.op = "verifyCompletion"
    /\ resp.status = 200
    /\ hist[resp.target].completedByAssignee
    /\ problems[resp.target].assignedTo = "vilB"
    /\ problems[resp.target].status = "resolved"

\* C9: isCompletedByVillager is true only on a problem on which a
\* mark-complete by its assignedTo has succeeded.
C9_CompletedOnlyByAssignee ==
    \A p \in DOMAIN problems :
        problems[p].isCompletedByVillager => hist[p].completedByAssignee

----------------------------------------------------------------------------
(* Properties of the upvote toggles *)

VoteOps == {"upvoteProblem", "upvoteSolution", "upvotePost", "upvoteComment"}

\* The voters of the entity an upvote request names, in the given
\* collections.
VotersOf(ps, ss, fs, op, target, arg) ==
    CASE op = "upvoteProblem" -> Range(ps[target].upvotes)
      [] op = "upvoteSolution" -> Range(ss[target].upvotes)
      [] op = "upvotePost" -> Range(fs[target].upvotes)
      [] op = "upvoteComment" ->
            Range(fs[target].comments[CommentById(fs[target].comments, arg)].upvotes)

\* C10: a successful toggle-upvote by U on E adds U when U was absent and
\* removes U when U was present, and the second of two consecutive
\* successful toggles by U on E leaves E's upvote set as it was before the
\* first.
C10_ToggleTwiceRestores ==
    [][ ((\E op \in VoteOps : Answers(op)) /\ resp'.status = 200) =>
          LET U == resp'.caller
              after == VotersOf(problems', solutions', posts',
                                resp'.op, resp'.target, resp'.arg)
          IN /\ (U \in resp'.found => after = resp'.found \ {U})
             /\ (U \notin resp'.found => after = resp'.found \cup {U})
             /\ (/\ resp.op = resp'.op
                 /\ resp.status = 200
                 /\ resp.caller = U
                 /\ resp.target = resp'.target
                 /\ resp.arg = resp'.arg)
                => after = resp.found ]_vars

\* C11: no user id occurs more than once in the upvotes of any problem,
\* solution or forum post, under any interleaving of the toggle requests.
C11_UpvotesNoDuplicates ==
    /\ \A p \in DOMAIN problems : \A u \in UserIds : Count(problems[p].upvotes, u) <= 1
    /\ \A x \in DOMAIN solutions : \A u \in UserIds : Count(solutions[x].upvotes, u) <= 1
    /\ \A f \in DOMAIN posts : \A u \in UserIds : Count(posts[f].upvotes, u) <= 1

\* C12: an admin's assign on an existing problem answers 400 and leaves
\* assignedTo and status alone when the target names no user or a user who
\* is not a villager; otherwise it sets assignedTo to the target and status
\* to in-progress.
C12_AssignChecksVillager ==
    [][ (/\ Answers("assign")
         /\ IsAdmin(resp'.caller)
         /\ resp'.target \in DOMAIN problems)
        => LET p == resp'.target
               a == resp'.arg
           IN IF IsVillager(a)
              THEN /\ resp'.status = 200
                   /\ problems'[p].assignedTo = a
                   /\ problems'[p].status = "in-progress"
              ELSE /\ resp'.status = 400
                   /\ problems'[p].assignedTo = problems[p].assignedTo
                   /\ problems'[p].status = problems[p].status ]_vars

\* C13: every problem whose assignedTo is set references an existing user
\* whose role is villager.
C13_AssigneeIsVillager ==
    \A p \in DOMAIN problems :
        problems[p].assignedTo # None => IsVillager(problems[p].assignedTo)

\* C15: every user's role is one of villager, volunteer, admin.
C15_RolesInEnum == \A u \in DOMAIN users : users[u].role \in Roles

\* C16: an admin's delete-user on themself answers 400 and leaves the
\* users alone; on any other existing user it removes that user and no
\* other.
C16_DeleteUserNotSelf ==
    [][ (/\ Answers("deleteUser")
         /\ IsAdmin(resp'.caller)
         /\ resp'.target \in DOMAIN users)
        => IF resp'.target = resp'.caller
           THEN resp'.status = 400 /\ users' = users
           ELSE /\ resp'.status = 200
                /\ DOMAIN users' = DOMAIN users \ {resp'.target}
                /\ \A u \in DOMAIN users' : users'[u] = users[u] ]_vars

\* An admin's delete of themself was refused after another user had been
\* deleted.
C16_Witness ==
    /\ resp.op = "deleteUser"
    /\ resp.status = 400
    /\ resp.target = resp.caller
    /\ IsAdmin(resp.caller)
    /\ DOMAIN users # UserIds

\* C14: a created problem's reportedBy is the caller of the create request
\* whatever the body holds, and no later request changes the reportedBy of
\* a stored problem.
C14_ReportedByImmutable ==
    [][ /\ (Answers("create") /\ resp'.status = 201)
           => problems'[resp'.target].reportedBy = resp'.caller
        /\ \A p \in DOMAIN problems \cap DOMAIN problems' :
              problems'[p].reportedBy = problems[p].reportedBy ]_vars

ErrorStatuses == {400, 403, 404, 500}

\* What is persisted.
Stored == <<users, problems, solutions, posts>>

\* This step answers a request: a handler of one step, or the last step of
\* the request in slot r of a handler of several.
Ends(r) == inflight[r] # Idle /\ inflight'[r] = Idle

\* C17: a request answered with 400, 403, 404 or 500 has changed nothing
\* that is stored, neither in the step that answers it nor in an earlier
\* step of the same request.
C17_ErrorsChangeNothing ==
    [][ resp'.status \in ErrorStatuses =>
          /\ inflight' = inflight => Stored' = Stored
          /\ \A r \in Slots :
                Ends(r) => Stored' = Stored /\ ~inflight[r].wrote ]_vars

\* The request admitted to slot r in this step.
Admitted(r, op) == inflight[r] = Idle /\ inflight'[r] # Idle /\ inflight'[r].op = op

AdminOps ==
    {"status", "verify", "verifyCompletion", "deleteProblem", "solutionStatus",
     "pin", "role", "deleteUser", "assign"}

\* C18: an admin-only request whose caller is not an admin (a villager, a
\* volunteer, no user at all) is refused and changes nothing that is
\* stored; the handler's writes are reached by admins only.
C18_AdminOnly ==
    [][ /\ \A op \in AdminOps :
              (Answers(op) /\ ~IsAdmin(resp'.caller))
              => resp'.status \in {401, 403} /\ Stored' = Stored
        /\ \A r \in Slots :
              Admitted(r, "deleteProblem") => IsAdmin(inflight'[r].tok) ]_vars

\* A villager has been refused the status change of a stored solution.
C18_Witness ==
    /\ resp.op = "solutionStatus"
    /\ resp.status = 403
    /\ IsVillager(resp.caller)
    /\ resp.target \in DOMAIN solutions

OwnerOps == {"update", "putSolution", "deleteSolution", "putForum", "deleteForum"}

\* The entity a request to an owner-or-admin route names is stored.
OwnedExists(op, id) ==
    CASE op = "update" -> id \in DOMAIN problems
      [] op \in {"putSolution", "deleteSolution"} -> id \in DOMAIN solutions
      [] op \in {"putForum", "deleteForum"} -> id \in DOMAIN posts

\* Its creator field: reportedBy, proposedBy, author.
OwnerOf(op, id) ==
    CASE op = "update" -> problems[id].reportedBy
      [] op \in {"putSolution", "deleteSolution"} -> solutions[id].proposedBy
      [] op \in {"putForum", "deleteForum"} -> posts[id].author

\* C19: problem update, solution update, solution delete, forum-post update
\* and forum-post delete go through only for the entity's creator or an
\* admin; any other authenticated caller gets 403 and nothing stored
\* changes (neither the entity nor, for solution delete, the problem's
\* solutions).
C19_OwnerOrAdmin ==
    [][ /\ \A op \in OwnerOps :
              (/\ Answers(op)
               /\ resp'.caller \in DOMAIN users
               /\ OwnedExists(op, resp'.target))
              => IF OwnerOf(op, resp'.target) = resp'.caller \/ IsAdmin(resp'.caller)
                 THEN resp'.status # 403
                 ELSE resp'.status = 403 /\ Stored' = Stored
        /\ \A r \in Slots :
              Admitted(r, "deleteSolution")
              => \/ solutions[inflight'[r].id].proposedBy = inflight'[r].tok
                 \/ IsAdmin(inflight'[r].tok) ]_vars

\* A villager who is not the proposer has been refused the update of a
\* stored solution.
C19_Witness ==
    /\ resp.op = "putSolution"
    /\ resp.status = 403
    /\ resp.target \in DOMAIN solutions
    /\ IsVillager(resp.caller)
    /\ solutions[resp.target].proposedBy # resp.caller

\* C20: list and get-by-id are never refused for the token they carry.
\* They apply the volunteer restriction exactly when the token is the
\* valid token of a stored user whose role is volunteer; with no token, a
\* malformed or expired one, or the token of a deleted user, they answer as
\* to an anonymous caller, with every matching problem.
C20_OptionalAuthNeverRejects ==
    [][ /\ Answers("list") =>
              /\ resp'.status = 200
              /\ resp'.body =
                   {View(p) : p \in {q \in Matching(resp'.arg) :
                        IsVolunteer(resp'.caller) => problems[q].isVerified}}
        /\ Answers("get") =>
              /\ resp'.status # 401
              /\ resp'.target \in DOMAIN problems =>
                   IF IsVolunteer(resp'.caller) /\ ~problems[resp'.target].isVerified
                   THEN resp'.status = 403
                   ELSE resp'.status = 200 /\ resp'.body = {View(resp'.target)} ]_vars

\* The expired token of a stored volunteer has been answered with an
\* unverified problem.
C20_Witness ==
    /\ resp.op = "list"
    /\ resp.caller = ExpiredToken
    /\ IsVolunteer("vol")
    /\ \E v \in resp.body : ~v.isVerified

\* The token of a deleted volunteer has been answered with an unverified
\* problem.
C20_WitnessDeleted ==
    /\ resp.op = "get"
    /\ resp.caller = "vol"
    /\ "vol" \notin DOMAIN users
    /\ resp.status = 200
    /\ \E v \in resp.body : ~v.isVerified

\* C21: a problem whose status is resolved has resolvedAt set, in every
\* state the workflow operations reach from creates without a status.
C21_ResolvedHasResolvedAt ==
    \A p \in DOMAIN problems :
        problems[p].status = "resolved" => problems[p].resolvedAt = Stamped

C23_StatusInEnum ==
    /\ \A p \in DOMAIN problems : problems[p].status \in ProblemStatuses
    /\ \A sol \in DOMAIN solutions : solutions[sol].status \in SolutionStatuses

====
